---- MODULE Spec2Model ----
(***************************************************************************)
(* Model of app/controller.py: the two Design Automation workflows of the  *)
(* Controller (process_with_workitem, export_to_ifc) as one sequential     *)
(* state machine with a program counter, and the grouping transform        *)
(* create_json_from_params as an operator.                                 *)
(***************************************************************************)
EXTENDS Integers, Sequences, FiniteSets, TLC

VARIABLES
    method,              \* the Controller method being run
    pc,                  \* position inside the method
    input_file,          \* params...input_file / output_file selected (truthy)
    selected_views,      \* params.step_ifc.inputs.selected_views_for_ifc is non-empty
    targets,             \* params.step_params.table_section.targets (table rows)
    type_params_config,  \* result of create_json_from_params
    revit_version,       \* local revit_version
    manifest_version,    \* what version detection came back with, or "raised"
    status_failures,     \* status requests of this invocation that raised
    workitems,           \* work items submitted by this invocation
    elapsed,             \* local elapsed
    final_status,        \* local final_status
    report_url,          \* local report_url
    polls,               \* status requests issued by this invocation
    sleeps,              \* time.sleep calls made by this invocation
    clock,               \* real seconds since the first status request started
    last_response,       \* JSON body of the most recent status response
    url_seen_before,     \* a response before the most recent one had a non-empty reportUrl
    remote_calls,        \* kinds of remote calls issued by this invocation
    acc_items,           \* ACC items created by this invocation
    progress,            \* last vkt.progress_message percentage
    success_shown,       \* vkt.UserMessage.success was called
    raised               \* the exception that left the method, if any

vars == <<method, pc, input_file, selected_views, targets, type_params_config,
          revit_version, manifest_version, status_failures, workitems, elapsed,
          final_status, report_url, polls,
          sleeps, clock, last_response, url_seen_before, remote_calls,
          acc_items, progress, success_shown, raised>>

(***************************************************************************)
(* Program constants                                                       *)
(***************************************************************************)
poll_interval == 10
max_wait == 600
request_timeout == 30

\* Python None, as it is compared and as it is printed by an f-string
None == "None"

\* if final_status in ("success", "failed", "cancelled"): break
TerminalStatusesWithoutCancelled == {"success", "failed"}
TerminalStatuses == {"success", "failed", "cancelled"}

\* s.get("status"): a terminal status, another status, or a missing key
Statuses == {"success", "failed", "cancelled", "inprogress", None}

\* s.get("reportUrl"): missing, empty, or a URL
ReportUrls == {None, "", "url_a", "url_b"}

\* Python truthiness of a string-or-None value
Truthy(x) == x # None /\ x # ""

\* the JSON bodies get_workitem_status can return
get_workitem_status == [status : Statuses, reportUrl : ReportUrls]

\* seconds a status request can take before it returns or raises
RequestDurations == {0, request_timeout}

\* the responses followed when request durations are followed too
TimedResponses == [status : Statuses, reportUrl : {None}]

Methods == {"process_with_workitem", "export_to_ifc"}

WorkflowPrefix(m) ==
    IF m = "process_with_workitem" THEN "Error in Automation workflow"
    ELSE "Error in IFC Export workflow"

DEFAULT_REVIT_VERSION == "DEFAULT_REVIT_VERSION"

\* results of get_revit_version_from_manifest: a version, or nothing
ManifestVersions == {None, "", "2025"}

(***************************************************************************)
(* Table rows and the grouping transform                                   *)
(***************************************************************************)
MaxRows == 3

ParameterNames == {"Carbon_Dataset_Code", "Carbon_Rating"}
ParameterGroups == {"PG_DATA", "PG_TEXT"}
TypeNames == {"400x400mm", "500x500mm"}
FamilyNames == {"CO_01_001_Geheide_prefab_betonpaal"}
Values == {"95", "96"}

Rows == [parameter_name : ParameterNames, parameter_group : ParameterGroups,
         type_name : TypeNames, family_name : FamilyNames, value : Values]

Tables == UNION {[1..n -> Rows] : n \in 0..MaxRows}

DefaultTargets ==
    << [parameter_name |-> "Carbon_Dataset_Code", parameter_group |-> "PG_DATA",
        type_name |-> "400x400mm",
        family_name |-> "CO_01_001_Geheide_prefab_betonpaal", value |-> "95"] >>

\* the tables a workflow invocation is run with
WorkflowTables == {<< >>, DefaultTargets}

\* key = (row["parameter_name"], row["parameter_group"])
GroupKeyByNameOnly(row) == <<row.parameter_name, "PG_DATA">>
GroupKey(row) == <<row.parameter_name, row.parameter_group>>

\* the dict appended to grouped[key]
Target(row) ==
    [TypeName |-> row.type_name, FamilyName |-> row.family_name, Value |-> row.value]

\* grouped[key].append(target) on a defaultdict(list); the dict is kept as the
\* sequence of its items in insertion order
GroupedAppendOverwrites(grouped, key, target) ==
    IF \E i \in 1..Len(grouped) : grouped[i].key = key
    THEN [i \in 1..Len(grouped) |->
            IF grouped[i].key = key
            THEN [grouped[i] EXCEPT !.targets = <<target>>]
            ELSE grouped[i]]
    ELSE Append(grouped, [key |-> key, targets |-> <<target>>])
GroupedAppendNewKeyFirst(grouped, key, target) ==
    IF \E i \in 1..Len(grouped) : grouped[i].key = key
    THEN [i \in 1..Len(grouped) |->
            IF grouped[i].key = key
            THEN [grouped[i] EXCEPT !.targets = Append(@, target)]
            ELSE grouped[i]]
    ELSE <<[key |-> key, targets |-> <<target>>]>> \o grouped
GroupedAppend(grouped, key, target) ==
    IF \E i \in 1..Len(grouped) : grouped[i].key = key
    THEN [i \in 1..Len(grouped) |->
            IF grouped[i].key = key
            THEN [grouped[i] EXCEPT !.targets = Append(@, target)]
            ELSE grouped[i]]
    ELSE Append(grouped, [key |-> key, targets |-> <<target>>])

RECURSIVE GroupRows(_, _)
GroupRows(rows, grouped) ==
    IF rows = << >> THEN grouped
    ELSE GroupRows(Tail(rows),
                   GroupedAppend(grouped, GroupKey(Head(rows)), Target(Head(rows))))

create_json_from_params(rows) ==
    LET grouped == GroupRows(rows, << >>)
    IN  [i \in 1..Len(grouped) |->
            [ParameterName |-> grouped[i].key[1],
             ParameterGroup |-> grouped[i].key[2],
             Targets |-> grouped[i].targets]]

NotComputed == <<"not computed">>

(***************************************************************************)
(* Exceptions                                                              *)
(***************************************************************************)
NoError ==
    [type |-> None, prefix |-> "", cause |-> "", status |-> "", report |-> None,
     traceback |-> FALSE]

\* an exception raised by a call, before any handler has seen it
Exc(type, cause) ==
    [type |-> type, prefix |-> "", cause |-> cause, status |-> "", report |-> None,
     traceback |-> FALSE]

\* vkt.UserError(msg) of the non-success branch: the message names the status
\* and, when report_url is truthy, the report URL
NotSuccessError(status, url) ==
    [type |-> "UserError", prefix |-> "", cause |-> "did not finish with success",
     status |-> status, report |-> IF Truthy(url) THEN url ELSE None,
     traceback |-> FALSE]

\* except Exception as e: raise vkt.UserError(f"{prefix}: {str(e)}\n\nDetails:\n{traceback}")
WrapReraisesOriginal(m, e) == e
Wrap(m, e) ==
    [e EXCEPT !.type = "UserError", !.prefix = WorkflowPrefix(m), !.traceback = TRUE]

\* while elapsed <= max_wait
LoopConditionOffByOne(e) == e <= max_wait + poll_interval
LoopConditionStrict(e) == e < max_wait
LoopCondition(e) == e <= max_wait

\* the test that lets the workflow go on to the output item: final_status == "success"
IsNotFailed(status) == status # "failed"
IsSuccess(status) == status = "success"

\* percentage = min(35 + int((elapsed / max_wait) * 55), 90)
Percentage(e) ==
    LET p == 35 + ((e * 55) \div max_wait)
    IN  IF p < 90 THEN p ELSE 90

(***************************************************************************)
(* The workflows                                                           *)
(***************************************************************************)
inputs == <<method, input_file, selected_views, targets>>
loopvars == <<elapsed, final_status, report_url, polls, sleeps, clock,
              last_response, url_seen_before>>

NoResponse == [status |-> None, reportUrl |-> None]

Init ==
    /\ method = "process_with_workitem"
    /\ pc = "idle"
    /\ input_file = FALSE
    /\ selected_views = FALSE
    /\ targets = DefaultTargets
    /\ type_params_config = NotComputed
    /\ revit_version = None
    /\ manifest_version = "not fetched"
    /\ status_failures = 0
    /\ workitems = 0
    /\ elapsed = 0
    /\ final_status = None
    /\ report_url = None
    /\ polls = 0
    /\ sleeps = 0
    /\ clock = 0
    /\ last_response = NoResponse
    /\ url_seen_before = FALSE
    /\ remote_calls = {}
    /\ acc_items = 0
    /\ progress = 0
    /\ success_shown = FALSE
    /\ raised = NoError

\* the user fills the form and presses the method's button
Invoke ==
    /\ pc \in {"idle", "done"}
    /\ \E m \in Methods, f \in BOOLEAN, v \in BOOLEAN, t \in WorkflowTables :
        /\ method' = m
        /\ input_file' = f
        /\ selected_views' = v
        /\ targets' = t
    /\ pc' = "entry"
    /\ type_params_config' = NotComputed
    /\ revit_version' = None
    /\ manifest_version' = "not fetched"
    /\ status_failures' = 0
    /\ workitems' = 0
    /\ elapsed' = 0
    /\ final_status' = None
    /\ report_url' = None
    /\ polls' = 0
    /\ sleeps' = 0
    /\ clock' = 0
    /\ last_response' = NoResponse
    /\ url_seen_before' = FALSE
    /\ remote_calls' = {}
    /\ acc_items' = 0
    /\ progress' = 0
    /\ success_shown' = FALSE
    /\ raised' = NoError

\* an exception raised inside the try block reaches the except clause, which
\* raises the UserError that leaves the method
Fail(e) ==
    /\ raised' = Wrap(method, e)
    /\ pc' = "done"

\* integration.get_access_token() before the try block
GetAccessToken ==
    /\ pc = "entry"
    /\ remote_calls' = remote_calls \cup {"get_access_token"}
    /\ \/ /\ pc' = "validate"
          /\ UNCHANGED raised
       \/ /\ raised' = Exc("OAuthError", "get_access_token")
          /\ pc' = "done"
    /\ UNCHANGED <<inputs, loopvars, type_params_config, revit_version, manifest_version, status_failures, workitems,
                   acc_items, progress, success_shown>>

\* the input checks at the head of the try block
ValidationErrorWithoutViewsCheck(m, f, v) ==
    IF m = "process_with_workitem"
    THEN IF ~f THEN "Please select an input Revit file" ELSE None
    ELSE IF ~f THEN "Please select the updated Revit file" ELSE None
ValidationError(m, f, v) ==
    IF m = "process_with_workitem"
    THEN IF ~f THEN "Please select an input Revit file" ELSE None
    ELSE IF ~f THEN "Please select the updated Revit file"
         ELSE IF ~v THEN "Please select at least one view" ELSE None

ValidateInputs ==
    /\ pc = "validate"
    /\ progress' = 5
    /\ LET err == ValidationError(method, input_file, selected_views)
       IN  IF err # None
           THEN Fail(Exc("UserError", err))
           ELSE /\ pc' = IF method = "process_with_workitem"
                         THEN "latest_version" ELSE "detect"
                /\ UNCHANGED raised
    /\ UNCHANGED <<inputs, loopvars, type_params_config, revit_version, manifest_version, status_failures, workitems,
                   remote_calls, acc_items, success_shown>>

\* rvt_file.get_latest_version(token) and version.attributes
GetLatestVersion ==
    /\ pc = "latest_version"
    /\ remote_calls' = remote_calls \cup {"get_latest_version"}
    /\ \/ /\ pc' = IF method = "process_with_workitem" THEN "detect" ELSE "submit"
          /\ UNCHANGED raised
       \/ Fail(Exc("Exception", "get_latest_version"))
    /\ UNCHANGED <<inputs, loopvars, type_params_config, revit_version, manifest_version, status_failures, workitems,
                   acc_items, progress, success_shown>>

\* the version the workflow goes on with, given what
\* get_revit_version_from_manifest returned: if not revit_version: default
VersionUsedAsReturned(v) == v
VersionUsed(v) == IF Truthy(v) THEN v ELSE DEFAULT_REVIT_VERSION

\* the inner try around fetch_manifest / get_revit_version_from_manifest
DetectRevitVersionWithoutInnerTry ==
    /\ pc = "detect"
    /\ remote_calls' = remote_calls \cup {"fetch_manifest"}
    /\ \/ /\ \E v \in ManifestVersions :
                /\ revit_version' = VersionUsed(v)
                /\ manifest_version' = v
          /\ pc' = "signature"
          /\ UNCHANGED raised
       \/ /\ manifest_version' = "raised"
          /\ Fail(Exc("Exception", "fetch_manifest"))
          /\ UNCHANGED revit_version
    /\ UNCHANGED <<inputs, loopvars, type_params_config, status_failures, workitems,
                   acc_items, progress, success_shown>>
DetectRevitVersion ==
    /\ pc = "detect"
    /\ remote_calls' = remote_calls \cup {"fetch_manifest"}
    /\ \/ \E v \in ManifestVersions :
            /\ revit_version' = VersionUsed(v)
            /\ manifest_version' = v
       \/ /\ revit_version' = DEFAULT_REVIT_VERSION
          /\ manifest_version' = "raised"
    /\ pc' = "signature"
    /\ UNCHANGED <<inputs, loopvars, type_params_config, status_failures, workitems,
                   acc_items, progress, success_shown, raised>>

\* get_type_parameters_signature / get_ifc_export_signature
GetSignature ==
    /\ pc = "signature"
    /\ \/ /\ pc' = "folder"
          /\ progress' = 15
          /\ UNCHANGED raised
       \/ /\ Fail(Exc("Exception", "get_signature"))
          /\ UNCHANGED progress
    /\ UNCHANGED <<inputs, loopvars, type_params_config, revit_version, manifest_version, status_failures, workitems,
                   remote_calls, acc_items, success_shown>>

\* parent_folder_from_item
ResolveFolder ==
    /\ pc = "folder"
    /\ remote_calls' = remote_calls \cup {"parent_folder_from_item"}
    /\ \/ /\ pc' = "config"
          /\ progress' = 25
          /\ UNCHANGED raised
       \/ /\ Fail(Exc("Exception", "parent_folder_from_item"))
          /\ UNCHANGED progress
    /\ UNCHANGED <<inputs, loopvars, type_params_config, revit_version, manifest_version, status_failures, workitems,
                   acc_items, success_shown>>

\* the JSON configuration and input_json.set_content(...)
GenerateConfig ==
    /\ pc = "config"
    /\ type_params_config' = IF method = "process_with_workitem"
                             THEN create_json_from_params(targets)
                             ELSE type_params_config
    /\ remote_calls' = remote_calls \cup {"set_content"}
    /\ \/ /\ pc' = IF method = "process_with_workitem" THEN "submit"
                   ELSE "latest_version"
          /\ progress' = 30
          /\ UNCHANGED raised
       \/ /\ Fail(Exc("Exception", "set_content"))
          /\ UNCHANGED progress
    /\ UNCHANGED <<inputs, loopvars, revit_version, manifest_version, status_failures, workitems, acc_items,
                   success_shown>>

\* workitem.run_public_activity(...), then the loop's locals are initialised
RunWorkItem ==
    /\ pc = "submit"
    /\ progress' = 35
    /\ remote_calls' = remote_calls \cup {"run_public_activity"}
    /\ \/ /\ workitems' = workitems + 1
          /\ pc' = "loop"
          /\ UNCHANGED raised
       \/ /\ Fail(Exc("Exception", "run_public_activity"))
          /\ UNCHANGED workitems
    /\ elapsed' = 0
    /\ final_status' = None
    /\ report_url' = None
    /\ UNCHANGED <<inputs, polls, sleeps, clock, last_response, url_seen_before,
                   type_params_config, revit_version, manifest_version, status_failures, acc_items, success_shown>>

\* report_url = s.get("reportUrl")
ReportUrlKeptWhenMissing(s, previous) ==
    IF Truthy(s.reportUrl) THEN s.reportUrl ELSE previous
ReportUrlOf(s, previous) == s.reportUrl

\* r.raise_for_status() or requests.get raises inside get_workitem_status: the
\* exception leaves the loop for the except clause
StatusRequestRaisesThenRetries ==
    /\ status_failures' = status_failures + 1
    /\ pc' = "sleep"
    /\ UNCHANGED <<final_status, report_url, last_response, url_seen_before,
                   progress, raised>>
StatusRequestRaises ==
    /\ status_failures' = status_failures + 1
    /\ Fail(Exc("Exception", "get_workitem_status"))
    /\ UNCHANGED <<final_status, report_url, last_response, url_seen_before,
                   progress>>

\* one pass of the loop body up to the break test; the status request takes
\* some d in durations and returns some s in responses, or raises
StatusPoll(durations, responses) ==
    /\ pc = "loop"
    /\ LoopCondition(elapsed)
    /\ polls' = polls + 1
    /\ remote_calls' = remote_calls \cup {"get_workitem_status"}
    /\ \E d \in durations : clock' = clock + d
    /\ \/ \E s \in responses :
            /\ final_status' = s.status
            /\ report_url' = ReportUrlOf(s, report_url)
            /\ last_response' = s
            /\ url_seen_before' =
                   (url_seen_before \/ (polls > 0 /\ Truthy(last_response.reportUrl)))
            /\ progress' = Percentage(elapsed)
            /\ pc' = IF final_status' \in TerminalStatuses THEN "after_loop"
                     ELSE "sleep"
            /\ UNCHANGED <<raised, status_failures>>
       \/ StatusRequestRaises
    /\ UNCHANGED <<inputs, elapsed, sleeps, type_params_config, revit_version, manifest_version,
                   workitems, acc_items, success_shown>>

\* status polls whose requests take no measurable time, with every response
PollStatus == StatusPoll({0}, get_workitem_status)

\* status polls whose requests take up to the request timeout
PollStatusTimed == StatusPoll(RequestDurations, TimedResponses)

\* time.sleep(poll_interval); elapsed += poll_interval
Sleep ==
    /\ pc = "sleep"
    /\ sleeps' = sleeps + 1
    /\ clock' = clock + poll_interval
    /\ elapsed' = elapsed + poll_interval
    /\ pc' = "loop"
    /\ UNCHANGED <<inputs, final_status, report_url, polls, last_response,
                   url_seen_before, type_params_config, revit_version, manifest_version, status_failures, workitems,
                   remote_calls, acc_items, progress, success_shown, raised>>

\* the while condition is false
LoopTimeout ==
    /\ pc = "loop"
    /\ ~LoopCondition(elapsed)
    /\ pc' = "after_loop"
    /\ UNCHANGED <<inputs, loopvars, type_params_config, revit_version, manifest_version, status_failures, workitems,
                   remote_calls, acc_items, progress, success_shown, raised>>

\* if final_status != "success": raise vkt.UserError(msg)
CheckFinalStatus ==
    /\ pc = "after_loop"
    /\ IF ~IsSuccess(final_status)
       THEN /\ Fail(NotSuccessError(final_status, report_url))
            /\ UNCHANGED progress
       ELSE /\ pc' = "create_item"
            /\ progress' = 92
            /\ UNCHANGED raised
    /\ UNCHANGED <<inputs, loopvars, type_params_config, revit_version, manifest_version, status_failures, workitems,
                   remote_calls, acc_items, success_shown>>

\* output_file.create_acc_item(token=access_token), then 100 % progress
CreateAccItem ==
    /\ pc = "create_item"
    /\ remote_calls' = remote_calls \cup {"create_acc_item"}
    /\ \/ /\ acc_items' = acc_items + 1
          /\ progress' = 100
          /\ pc' = "success_msg"
          /\ UNCHANGED raised
       \/ /\ Fail(Exc("Exception", "create_acc_item"))
          /\ UNCHANGED <<acc_items, progress>>
    /\ UNCHANGED <<inputs, loopvars, type_params_config, revit_version, manifest_version, status_failures, workitems,
                   success_shown>>

\* vkt.UserMessage.success(success_msg); the method returns
ShowSuccess ==
    /\ pc = "success_msg"
    /\ success_shown' = TRUE
    /\ pc' = "done"
    /\ UNCHANGED <<inputs, loopvars, type_params_config, revit_version, manifest_version, status_failures, workitems,
                   remote_calls, acc_items, progress, raised>>

\* every step of a running invocation
Run ==
    \/ GetAccessToken
    \/ ValidateInputs
    \/ GetLatestVersion
    \/ DetectRevitVersion
    \/ GetSignature
    \/ ResolveFolder
    \/ GenerateConfig
    \/ RunWorkItem
    \/ PollStatus
    \/ Sleep
    \/ LoopTimeout
    \/ CheckFinalStatus
    \/ CreateAccItem
    \/ ShowSuccess

Next ==
    \/ Invoke
    \/ GetAccessToken
    \/ ValidateInputs
    \/ GetLatestVersion
    \/ DetectRevitVersion
    \/ GetSignature
    \/ ResolveFolder
    \/ GenerateConfig
    \/ RunWorkItem
    \/ PollStatus
    \/ Sleep
    \/ LoopTimeout
    \/ CheckFinalStatus
    \/ CreateAccItem
    \/ ShowSuccess

Spec == Init /\ [][Next]_vars

NextTimed ==
    \/ Invoke
    \/ GetAccessToken
    \/ ValidateInputs
    \/ GetLatestVersion
    \/ DetectRevitVersion
    \/ GetSignature
    \/ ResolveFolder
    \/ GenerateConfig
    \/ RunWorkItem
    \/ PollStatusTimed
    \/ Sleep
    \/ LoopTimeout
    \/ CheckFinalStatus
    \/ CreateAccItem
    \/ ShowSuccess

\* the same program with the duration of each status request followed
SpecTimed == Init /\ [][NextTimed]_vars

\* a started method runs on: single-threaded synchronous code
FairSpec == Spec /\ WF_vars(Run)

(***************************************************************************)
(* create_json_from_params on its own: every table of at most MaxRows rows *)
(***************************************************************************)
InitJson ==
    /\ method = "create_json_from_params"
    /\ pc = "json_call"
    /\ input_file = FALSE
    /\ selected_views = FALSE
    /\ targets \in Tables
    /\ type_params_config = NotComputed
    /\ revit_version = None
    /\ manifest_version = "not fetched"
    /\ status_failures = 0
    /\ workitems = 0
    /\ elapsed = 0
    /\ final_status = None
    /\ report_url = None
    /\ polls = 0
    /\ sleeps = 0
    /\ clock = 0
    /\ last_response = NoResponse
    /\ url_seen_before = FALSE
    /\ remote_calls = {}
    /\ acc_items = 0
    /\ progress = 0
    /\ success_shown = FALSE
    /\ raised = NoError

CreateJson ==
    /\ pc = "json_call"
    /\ type_params_config' = create_json_from_params(targets)
    /\ pc' = "json_done"
    /\ UNCHANGED <<inputs, loopvars, revit_version, manifest_version, status_failures, workitems, remote_calls,
                   acc_items, progress, success_shown, raised>>

NextJson == CreateJson

SpecJson == InitJson /\ [][NextJson]_vars

(***************************************************************************)
(* Properties                                                              *)
(***************************************************************************)

\* C1: once a work item has been submitted the poll loop always terminates,
\* whatever the endpoint returns: between 1 and 61 status polls are issued,
\* each at elapsed = 0, 10, ..., 600 (the k-th poll at elapsed = 10 * (k - 1)),
\* and the invocation then ends, in the success path or with a raised error.
C1_PollLoopTerminates ==
    /\ [](/\ polls <= 61
          /\ (pc \in {"after_loop", "create_item", "success_msg"} => polls >= 1)
          /\ (pc = "done" /\ workitems > 0 =>
                /\ polls >= 1
                /\ success_shown # (raised # NoError)))
    /\ [][polls' = polls + 1 =>
            /\ elapsed \in {10 * k : k \in 0..60}
            /\ polls = elapsed \div 10]_vars
    /\ (workitems > 0 ~> pc = "done")

C1_Witness ==
    /\ pc = "done"
    /\ polls = 61
    /\ elapsed = 600
    /\ success_shown

\* a step in which a status request was issued and returned a response
PollReturned == polls' = polls + 1 /\ raised' = NoError

\* a poll that returns "success", "failed" or "cancelled" leaves the loop
\* with final_status that status
StopsAtTerminal ==
    PollReturned /\ last_response'.status \in {"success", "failed", "cancelled"} =>
        /\ pc' = "after_loop"
        /\ final_status' = last_response'.status

\* once final_status is one of the three, the invocation issues no further
\* status request and no further sleep, and final_status stays
NothingAfterTerminal ==
    final_status \in {"success", "failed", "cancelled"} /\ pc' # "entry" =>
        /\ polls' = polls
        /\ sleeps' = sleeps
        /\ final_status' = final_status

\* a poll that returns any other status, or none, is followed by a sleep
SleepsAfterOther ==
    /\ PollReturned /\ last_response'.status \notin {"success", "failed", "cancelled"} =>
          pc' = "sleep"
    /\ pc = "sleep" => sleeps' = sleeps + 1 /\ polls' = polls /\ pc' = "loop"

\* the loop is back at its head after the sleep that followed a poll
AfterSleep == pc = "loop" /\ sleeps > 0

\* elapsed at the poll that preceded that sleep
ElapsedAtLastPoll == elapsed - poll_interval

\* C2 as stated: polling stops at the first poll whose status is "success",
\* "failed" or "cancelled" (nothing is requested or slept after it, and
\* final_status is that status); after a poll with any other status at
\* elapsed <= 600 the loop sleeps and polls again.
C2_AsStated ==
    /\ [][StopsAtTerminal]_vars
    /\ [][NothingAfterTerminal]_vars
    /\ [][SleepsAfterOther]_vars
    /\ [][AfterSleep /\ ElapsedAtLastPoll <= 600 => polls' = polls + 1]_vars

\* C2, amended: polling stops at the first poll whose status is "success",
\* "failed" or "cancelled" (nothing is requested or slept after it, and
\* final_status is that status); after a poll with any other status the loop
\* sleeps, and it polls again if that poll was at elapsed < 600; after the poll
\* at elapsed = 600 it sleeps and leaves the loop without another poll.
C2_StopsAtFirstTerminal ==
    /\ [][StopsAtTerminal]_vars
    /\ [][NothingAfterTerminal]_vars
    /\ [][SleepsAfterOther]_vars
    /\ [][AfterSleep =>
            IF ElapsedAtLastPoll < 600
            THEN polls' = polls + 1
            ELSE polls' = polls /\ sleeps' = sleeps /\ pc' = "after_loop"]_vars

C2_Witness ==
    /\ pc = "after_loop"
    /\ final_status = "cancelled"
    /\ sleeps = 3
    /\ polls = 4

\* the (parameter_name, parameter_group) keys occurring in the rows
KeysOf(rows) ==
    {<<rows[i].parameter_name, rows[i].parameter_group>> : i \in DOMAIN rows}

\* the number of rows with key k that carry the target x
RowCount(rows, k, x) ==
    Cardinality({i \in DOMAIN rows :
        /\ <<rows[i].parameter_name, rows[i].parameter_group>> = k
        /\ [TypeName |-> rows[i].type_name, FamilyName |-> rows[i].family_name,
            Value |-> rows[i].value] = x})

\* the number of times x occurs in a list of targets
TargetCount(ts, x) == Cardinality({j \in DOMAIN ts : ts[j] = x})

RECURSIVE TotalTargets(_)
TotalTargets(result) ==
    IF result = << >> THEN 0
    ELSE Len(Head(result).Targets) + TotalTargets(Tail(result))

AllTargets ==
    [TypeName : TypeNames, FamilyName : FamilyNames, Value : Values]

\* C3: create_json_from_params groups the rows by (parameter_name,
\* parameter_group): the result has exactly one entry per key occurring in
\* the rows, no two entries share (ParameterName, ParameterGroup), an entry's
\* Targets are exactly the targets of the rows with its key (each as often as
\* it occurs there), and the targets of all entries number the rows.
C3_GroupsByNameAndGroup ==
    pc = "json_done" =>
        LET result == type_params_config
            KeyAt(j) == <<result[j].ParameterName, result[j].ParameterGroup>>
        IN  /\ {KeyAt(j) : j \in DOMAIN result} = KeysOf(targets)
            /\ \A i, j \in DOMAIN result : KeyAt(i) = KeyAt(j) => i = j
            /\ \A j \in DOMAIN result : \A x \in AllTargets :
                   TargetCount(result[j].Targets, x) = RowCount(targets, KeyAt(j), x)
            /\ TotalTargets(result) = Len(targets)

C3_Witness ==
    /\ pc = "json_done"
    /\ Len(targets) = 3
    /\ Len(type_params_config) = 2
    /\ type_params_config[1].ParameterName = type_params_config[2].ParameterName
    /\ Len(type_params_config[2].Targets) = 2

\* C7 as stated: the result has one entry per distinct parameter_name of the
\* rows, so no two entries carry the same ParameterName.
C7_AsStated ==
    pc = "json_done" =>
        LET result == type_params_config
        IN  /\ Len(result) =
                  Cardinality({targets[i].parameter_name : i \in DOMAIN targets})
            /\ \A i, j \in DOMAIN result :
                   result[i].ParameterName = result[j].ParameterName => i = j

\* C7, amended: the result has one entry per distinct (parameter_name,
\* parameter_group) pair of the rows, which is at least the number of distinct
\* parameter_name values; two entries carry the same ParameterName exactly
\* when the rows give that name two different parameter_group values.
C7_OneEntryPerNameAndGroup ==
    pc = "json_done" =>
        LET result == type_params_config
            names == {targets[i].parameter_name : i \in DOMAIN targets}
            GroupsOf(n) == {targets[i].parameter_group :
                               i \in {r \in DOMAIN targets : targets[r].parameter_name = n}}
            EntriesOf(n) == {j \in DOMAIN result : result[j].ParameterName = n}
        IN  /\ Len(result) = Cardinality(KeysOf(targets))
            /\ Len(result) >= Cardinality(names)
            /\ \A n \in ParameterNames :
                   Cardinality(EntriesOf(n)) = Cardinality(GroupsOf(n))

C7_Witness ==
    /\ pc = "json_done"
    /\ Len(targets) = 2
    /\ Len(type_params_config) = 2
    /\ type_params_config[1].ParameterName = type_params_config[2].ParameterName
    /\ type_params_config[1].ParameterGroup # type_params_config[2].ParameterGroup

\* C4 as stated: whatever step of an invocation fails, the token retrieval at
\* method entry included, the exception that leaves the method is a
\* vkt.UserError with the workflow prefix and the traceback.
C4_AsStated ==
    raised # NoError =>
        /\ raised.type = "UserError"
        /\ raised.prefix = WorkflowPrefix(method)
        /\ raised.traceback

\* C4, amended: a failure of a step inside the try block (input validation,
\* get_latest_version, signature lookup, folder resolution, configuration
\* upload, job submission, a status poll, a non-success final status, ACC item
\* creation) ends the invocation with one vkt.UserError carrying the workflow
\* prefix and the traceback; a failure of version detection does not end the
\* invocation; a failure of the token retrieval at method entry, which is
\* outside the try block, leaves the method as it was raised, without prefix
\* or traceback.
C4_FailuresInsideTryAreWrapped ==
    /\ [](raised # NoError =>
            /\ pc = "done"
            /\ IF raised.cause = "get_access_token"
               THEN /\ raised.type = "OAuthError"
                    /\ raised.prefix = ""
                    /\ ~raised.traceback
               ELSE /\ raised.type = "UserError"
                    /\ raised.prefix = WorkflowPrefix(method)
                    /\ raised.traceback)
    /\ [][pc = "detect" => pc' = "signature" /\ raised' = NoError]_vars
    /\ [][raised # NoError /\ pc' # "entry" => raised' = raised]_vars

C4_Witness ==
    /\ pc = "done"
    /\ raised.type = "UserError"
    /\ raised.cause = "create_acc_item"
    /\ raised.prefix = "Error in IFC Export workflow"

\* C6: when polling ends with a final status other than "success", the raised
\* error names the report URL iff the most recent status response had a
\* non-empty reportUrl, and then it is that URL; a URL seen only in an earlier
\* response is not reported, and no request is made between the end of the
\* loop and the error.
C6_ReportUrlOfLastResponse ==
    /\ [](raised.cause = "did not finish with success" =>
            /\ last_response.status # "success"
            /\ (raised.report # None) = Truthy(last_response.reportUrl)
            /\ (Truthy(last_response.reportUrl) =>
                    raised.report = last_response.reportUrl))
    /\ [][pc = "after_loop" => polls' = polls /\ remote_calls' = remote_calls]_vars

C6_Witness ==
    /\ pc = "done"
    /\ raised.cause = "did not finish with success"
    /\ raised.status = "failed"
    /\ url_seen_before
    /\ raised.report = None

\* C8: create_acc_item is called at most once per invocation and only after a
\* status poll of the invocation returned "success": no item exists when the
\* final status is "failed", "cancelled" or non-terminal, nor when a step
\* raised; the success message and 100 % progress come only after
\* create_acc_item returned.
C8_ItemOnlyAfterSuccess ==
    /\ [](/\ acc_items <= 1
          /\ ("create_acc_item" \in remote_calls \/ acc_items > 0 =>
                /\ polls >= 1
                /\ last_response.status = "success"
                /\ final_status = "success")
          /\ (raised # NoError => acc_items = 0)
          /\ (success_shown \/ progress = 100 => acc_items = 1))
    /\ [][acc_items' > acc_items \/ "create_acc_item" \in remote_calls' \ remote_calls =>
            /\ acc_items = 0
            /\ "create_acc_item" \notin remote_calls
            /\ raised = NoError
            /\ final_status = "success"]_vars

C8_Witness ==
    /\ pc = "done"
    /\ acc_items = 1
    /\ success_shown
    /\ progress = 100
    /\ polls = 2

\* C9: if all 61 polls (elapsed 0 through 600) return a non-terminal status,
\* the loop exits with elapsed = 610, the workflow raises an error whose
\* message names the last observed status, no output item is created, and the
\* workflow issues no request that cancels the work item.
C9_TimeoutOutcome ==
    /\ sleeps <= 61
    /\ (pc = "after_loop" /\ final_status \notin {"success", "failed", "cancelled"} =>
            sleeps = 61)
    /\ (sleeps = 61 =>
            /\ polls = 61
            /\ elapsed = 610
            /\ pc \in {"loop", "after_loop", "done"}
            /\ last_response.status \notin {"success", "failed", "cancelled"}
            /\ acc_items = 0
            /\ "create_acc_item" \notin remote_calls
            /\ remote_calls \subseteq
                   {"get_access_token", "get_latest_version", "fetch_manifest",
                    "parent_folder_from_item", "set_content", "run_public_activity",
                    "get_workitem_status"}
            /\ (pc = "done" =>
                    /\ raised.type = "UserError"
                    /\ raised.cause = "did not finish with success"
                    /\ raised.status = last_response.status))

C9_Witness ==
    /\ pc = "done"
    /\ sleeps = 61
    /\ elapsed = 610
    /\ raised.status = "inprogress"

\* the input checks of the two methods fail
InputsInvalid ==
    \/ method = "process_with_workitem" /\ ~input_file
    \/ method = "export_to_ifc" /\ (~input_file \/ ~selected_views)

\* C10: input validation precedes job submission: without an input Revit file
\* process_with_workitem raises without submitting a work item or polling;
\* export_to_ifc does the same without an output file or with no view selected.
C10_ValidationBeforeSubmission ==
    InputsInvalid /\ pc # "idle" =>
        /\ workitems = 0
        /\ polls = 0
        /\ sleeps = 0
        /\ remote_calls \subseteq {"get_access_token"}
        /\ pc \in {"entry", "validate", "done"}
        /\ (pc = "done" => raised # NoError /\ ~success_shown)

C10_Witness ==
    /\ pc = "done"
    /\ method = "export_to_ifc"
    /\ input_file
    /\ ~selected_views
    /\ raised.type = "UserError"
    /\ raised.cause = "Please select at least one view"

\* a status poll is about to start: the loop is at its head and goes on
PollStarts == pc = "loop" /\ elapsed <= max_wait

\* C5 as stated: no status poll starts later than max_wait = 600 seconds of
\* real time after the first poll started, real time counting the sleeps and
\* the time the status requests take.
C5_AsStated == PollStarts => clock <= 600

\* C5, amended: the cut-off is on the counter elapsed, which counts the
\* 10-second sleeps only: no status poll starts with elapsed > 600. The time
\* the status requests take is not counted, so with requests of up to 30
\* seconds a poll can start as late as 600 + 60 * 30 = 2400 seconds of real
\* time after the first poll started.
C5_CutOffCountsSleepsOnly ==
    /\ [](/\ elapsed = 10 * sleeps
          /\ clock >= elapsed
          /\ clock - elapsed <= 30 * polls
          /\ (PollStarts => clock <= 2400))
    /\ [][polls' = polls + 1 => elapsed <= 600]_vars

C5_Witness ==
    /\ PollStarts
    /\ elapsed = 600
    /\ clock = 2400

\* C11: version detection never aborts a workflow: when fetching the manifest
\* raises, or the manifest yields no version, the workflow continues with
\* DEFAULT_REVIT_VERSION towards the submission of the work item; the detected
\* version is used only when detection returned a non-empty value.
C11_DetectionNeverAborts ==
    /\ [][pc = "detect" =>
            /\ pc' = "signature"
            /\ raised' = NoError
            /\ manifest_version' # "not fetched"]_vars
    /\ [](/\ raised.cause # "fetch_manifest"
          /\ (manifest_version = "not fetched") = (revit_version = "None")
          /\ (manifest_version \in {"raised", "None", ""} =>
                revit_version = "DEFAULT_REVIT_VERSION")
          /\ (manifest_version \notin {"not fetched", "raised", "None", ""} =>
                revit_version = manifest_version)
          /\ (workitems > 0 => manifest_version # "not fetched"))

C11_Witness ==
    /\ method = "export_to_ifc"
    /\ manifest_version = "raised"
    /\ revit_version = "DEFAULT_REVIT_VERSION"
    /\ workitems = 1
    /\ pc = "loop"

\* the index of the first row with key k
FirstRow(rows, k) ==
    CHOOSE i \in DOMAIN rows :
        /\ <<rows[i].parameter_name, rows[i].parameter_group>> = k
        /\ \A h \in 1..(i - 1) :
               <<rows[h].parameter_name, rows[h].parameter_group>> # k

\* the targets of the rows with key k, in the order of the rows
TargetsInRowOrder(rows, k) ==
    LET HasKey(r) == <<r.parameter_name, r.parameter_group>> = k
        sel == SelectSeq(rows, HasKey)
    IN  [i \in 1..Len(sel) |->
            [TypeName |-> sel[i].type_name, FamilyName |-> sel[i].family_name,
             Value |-> sel[i].value]]

\* C12: the grouping is determined by the rows and keeps their order: the
\* entries are those of the keys of the rows, in the order in which each
\* (parameter_name, parameter_group) key first occurs in the rows, and the
\* targets of an entry are those of its rows in the order of the rows; so two
\* calls on the same rows return the same array.
C12_OrderPreserving ==
    pc = "json_done" =>
        LET result == type_params_config
            KeyAt(j) == <<result[j].ParameterName, result[j].ParameterGroup>>
        IN  /\ Len(result) = Cardinality(KeysOf(targets))
            /\ \A j \in DOMAIN result : KeyAt(j) \in KeysOf(targets)
            /\ \A i, j \in DOMAIN result :
                   i < j => FirstRow(targets, KeyAt(i)) < FirstRow(targets, KeyAt(j))
            /\ \A j \in DOMAIN result :
                   result[j].Targets = TargetsInRowOrder(targets, KeyAt(j))

C12_Witness ==
    /\ pc = "json_done"
    /\ Len(targets) = 3
    /\ targets[1].parameter_name = "Carbon_Rating"
    /\ targets[2].parameter_name = "Carbon_Dataset_Code"
    /\ targets[3].parameter_name = "Carbon_Rating"
    /\ targets[1].parameter_group = targets[3].parameter_group
    /\ targets[1].value = "96"
    /\ targets[3].value = "95"
    /\ Len(type_params_config) = 2
    /\ type_params_config[1].ParameterName = "Carbon_Rating"
    /\ type_params_config[1].Targets[1].Value = "96"
    /\ type_params_config[1].Targets[2].Value = "95"

\* C13: a single failed status request aborts the workflow: when a call of
\* get_workitem_status raises, the invocation ends with an error, with no
\* retry, no further poll or sleep and no ACC item, also when the last status
\* seen was that of a work item still running.
C13_FailedRequestAborts ==
    /\ [](status_failures > 0 =>
            /\ status_failures = 1
            /\ pc = "done"
            /\ raised.type = "UserError"
            /\ raised.cause = "get_workitem_status"
            /\ acc_items = 0
            /\ "create_acc_item" \notin remote_calls
            /\ ~success_shown)
    /\ [][status_failures' > status_failures =>
            /\ polls' = polls + 1
            /\ sleeps' = sleeps
            /\ pc' = "done"]_vars
    /\ [][status_failures > 0 /\ pc' # "entry" =>
            /\ polls' = polls
            /\ sleeps' = sleeps
            /\ acc_items' = acc_items]_vars

C13_Witness ==
    /\ pc = "done"
    /\ status_failures = 1
    /\ polls = 3
    /\ sleeps = 2
    /\ last_response.status = "inprogress"
    /\ raised.cause = "get_workitem_status"

====
